---- MODULE Spec2Model ----
(***************************************************************************)
(* Inventory Management API (FastAPI): the router of routes.py with its    *)
(* in-memory item store, identifier counter and user directory, one action *)
(* per HTTP request; and, for the handlers that write the store, one      *)
(* action per statement of a request running in a worker thread (the       *)
(* handlers are plain def functions, which the framework runs in a thread  *)
(* pool).                                                                  *)
(*                                                                         *)
(* Conventions                                                             *)
(*   - Optional[T] is a sequence of length <= 1: <<>> is None, <<v>> is v. *)
(*   - An item name (the only str the code looks inside) is the sequence   *)
(*     of its code points; every other str is only compared for equality   *)
(*     and is a TLA+ string.                                               *)
(*   - price is a finite number; the model uses integers (NaN is not       *)
(*     modelled).                                                          *)
(*   - A Python dict is the sequence of its entries in insertion order.    *)
(***************************************************************************)
EXTENDS Integers, Sequences, FiniteSets, TLC

VARIABLES
    inventory,      \* routes.py:15  item_id -> stored record, insertion-ordered
    next_item_id,   \* routes.py:16
    fake_users_db,  \* auth.fake_users_db: username -> UserInDB
    now,            \* the wall clock the token expiry is compared with
    request,        \* the request handled last
    response,       \* its response: [status, body]
    assigned,       \* history: the adds that succeeded, in order: [item_id, by]
    deleted,        \* history: the item_ids delete_item has removed
    threads         \* worker thread -> the handler it runs: position and locals

vars == <<inventory, next_item_id, fake_users_db, now, request, response,
          assigned, deleted, threads>>

-----------------------------------------------------------------------------
(* Bounds of the model *)

\* Spec: add_item is taken while next_item_id <= MaxAdds
MaxAdds == 1
\* SpecStore: add_item is taken while next_item_id <= MaxStoreAdds
MaxStoreAdds == 3
\* the clock ticks up to MaxTime
MaxTime == 2
\* list_items: skip is drawn from 0..MaxSkip, limit from 1..MaxLimit
MaxSkip == 3
MaxLimit == 2
\* the stores SpecList starts from hold at most MaxItems items
MaxItems == 3

-----------------------------------------------------------------------------
(* Python built-ins used by the handlers *)

None == <<>>
Some(v) == <<v>>

Min(a, b) == IF a < b THEN a ELSE b

\* dict: k in d
Contains(d, k) == \E i \in DOMAIN d : d[i].key = k

\* dict: d[k]
Lookup(d, k) == d[CHOOSE i \in DOMAIN d : d[i].key = k].value

\* dict: d[k] = v  (an existing key keeps its position, a new key goes last)
Store(d, k, v) ==
    IF Contains(d, k)
    THEN [i \in DOMAIN d |-> IF d[i].key = k THEN [key |-> k, value |-> v] ELSE d[i]]
    ELSE Append(d, [key |-> k, value |-> v])

\* dict: del d[k]
RECURSIVE Remove(_, _)
Remove(d, k) ==
    IF d = <<>> THEN <<>>
    ELSE IF Head(d).key = k THEN Remove(Tail(d), k)
    ELSE <<Head(d)>> \o Remove(Tail(d), k)

Keys(d) == {d[i].key : i \in DOMAIN d}

\* str.lower() on ASCII code points
Lower(s) == [i \in DOMAIN s |-> IF s[i] \in 65..90 THEN s[i] + 32 ELSE s[i]]

\* a in b  (substring containment)
IsSubstring(a, b) ==
    \E i \in 0..(Len(b) - Len(a)) : SubSeq(b, i + 1, i + Len(a)) = a

\* a < b on str: lexicographic on code points
RECURSIVE StrLess(_, _)
StrLess(a, b) ==
    IF b = <<>> THEN FALSE
    ELSE IF a = <<>> THEN TRUE
    ELSE IF Head(a) # Head(b) THEN Head(a) < Head(b)
    ELSE StrLess(Tail(a), Tail(b))

\* list[lo:hi] for 0 <= lo
Slice(s, lo, hi) == SubSeq(s, lo + 1, Min(hi, Len(s)))

-----------------------------------------------------------------------------
(* models.py *)

\* InventoryItem.dict()
InventoryItem(name, quantity, price, description) ==
    [name |-> name, quantity |-> quantity, price |-> price,
     description |-> description]

\* response_model=InventoryItemResponse: the returned dict serialised through
\* the model keeps the model's fields and drops every other key
InventoryItemResponse(d) ==
    [name |-> d.name, quantity |-> d.quantity, price |-> d.price,
     description |-> d.description, created_by |-> d.created_by]

UserInDB(username, full_name, role, hashed_password) ==
    [username |-> username, full_name |-> full_name, role |-> role,
     disabled |-> FALSE, hashed_password |-> hashed_password]

RegisterRequest(username, password, full_name, role) ==
    [username |-> username, password |-> password, full_name |-> full_name,
     role |-> role]

-----------------------------------------------------------------------------
(* auth.py: the authentication module that routes.py imports, modelled     *)
(* from sections 4.2, 6 and 7 of the specification.                        *)

SECRET_KEY == "server-secret"
\* the default expiry window, in clock ticks
ACCESS_TOKEN_EXPIRE == 1

get_password_hash(password) == <<"hash", password>>

verify_password(plain, hashed) == hashed = get_password_hash(plain)

\* the signature of a token payload under a key
Sign(key, sub, exp) == <<key, sub, exp>>

\* the token create_access_token makes for sub when the clock shows issued_at
TokenFor(sub, issued_at) ==
    [sub |-> sub, exp |-> issued_at + ACCESS_TOKEN_EXPIRE,
     sig |-> Sign(SECRET_KEY, sub, issued_at + ACCESS_TOKEN_EXPIRE)]

create_access_token(sub) == TokenFor(sub, now)

\* the directory at startup: an admin, and a disabled account
SeedUsers ==
    [u \in {"admin", "ghost"} |->
        IF u = "admin"
        THEN UserInDB("admin", Some("Admin User"), "admin", get_password_hash("adminpw"))
        ELSE [UserInDB("ghost", None, "user", get_password_hash("ghostpw"))
                EXCEPT !.disabled = TRUE]]

authenticate_user(username, password) ==
    IF username \notin DOMAIN fake_users_db THEN None
    ELSE IF ~verify_password(password, fake_users_db[username].hashed_password) THEN None
    ELSE IF fake_users_db[username].disabled THEN None
    ELSE Some(fake_users_db[username])

Denied(status, detail) == [status |-> status, detail |-> detail, username |-> "", role |-> ""]

get_current_user(token) ==
    IF token = None THEN Denied(401, "Not authenticated")
    ELSE IF token[1].sig # Sign(SECRET_KEY, token[1].sub, token[1].exp)
         THEN Denied(401, "Could not validate credentials")
    ELSE IF token[1].exp < now THEN Denied(401, "Could not validate credentials")
    ELSE IF token[1].sub \notin DOMAIN fake_users_db
         THEN Denied(401, "Could not validate credentials")
    ELSE [status |-> 200, detail |-> "", username |-> token[1].sub,
          role |-> fake_users_db[token[1].sub].role]

get_current_active_user(token) ==
    LET u == get_current_user(token) IN
    IF u.status # 200 THEN u
    ELSE IF fake_users_db[u.username].disabled THEN Denied(403, "Inactive user")
    ELSE u

\* (mutant) the role not checked
get_admin_user_AnyRole(token) == get_current_active_user(token)

get_admin_user(token) ==
    LET u == get_current_active_user(token) IN
    IF u.status # 200 THEN u
    ELSE IF u.role # "admin" THEN Denied(403, "Admin privileges required")
    ELSE u

-----------------------------------------------------------------------------
(* routes.py *)

HTTPException(status_code, detail) ==
    [status |-> status_code, body |-> [detail |-> detail]]

\* a guard's failure, raised before the handler body runs
GuardFailure(u) == HTTPException(u.status, u.detail)

\* (mutant) the dependency left out: every caller passes as an anonymous user
UserDependency_Open(token) ==
    [status |-> 200, detail |-> "", username |-> "anonymous", role |-> "user"]

\* current_user: User = Depends(get_current_active_user)
UserDependency(token) == get_current_active_user(token)

\* (mutant) the handler depends on get_current_active_user instead
AdminDependency_AnyUser(token) == get_current_active_user(token)

\* current_user: User = Depends(get_admin_user)
AdminDependency(token) == get_admin_user(token)

Frame ==
    UNCHANGED <<inventory, next_item_id, fake_users_db, now, assigned, deleted, threads>>

\* (mutant) the duplicate check left out
UsernameTaken_Never(user) == FALSE

\* POST /register : user.username in fake_users_db
UsernameTaken(user) == user.username \in DOMAIN fake_users_db

\* (mutant) every registered account given the default role
register_user_DefaultRole(user) ==
    /\ request' = [op |-> "register_user", token |-> None, args |-> user]
    /\ IF UsernameTaken(user)
       THEN /\ response' = HTTPException(400, "User already exists")
            /\ UNCHANGED fake_users_db
       ELSE LET hashed_pw == get_password_hash(user.password) IN
            /\ fake_users_db' =
                 [u \in DOMAIN fake_users_db \cup {user.username} |->
                    IF u = user.username
                    THEN UserInDB(user.username, user.full_name, "user", hashed_pw)
                    ELSE fake_users_db[u]]
            /\ response' = [status |-> 201, body |-> [msg |-> <<"registered", user.username>>]]
    /\ UNCHANGED <<inventory, next_item_id, now, assigned, deleted, threads>>

\* POST /register
register_user(user) ==
    /\ request' = [op |-> "register_user", token |-> None, args |-> user]
    /\ IF UsernameTaken(user)
       THEN /\ response' = HTTPException(400, "User already exists")
            /\ UNCHANGED fake_users_db
       ELSE LET hashed_pw == get_password_hash(user.password) IN
            /\ fake_users_db' =
                 [u \in DOMAIN fake_users_db \cup {user.username} |->
                    IF u = user.username
                    THEN UserInDB(user.username, user.full_name, user.role, hashed_pw)
                    ELSE fake_users_db[u]]
            /\ response' = [status |-> 201, body |-> [msg |-> <<"registered", user.username>>]]
    /\ UNCHANGED <<inventory, next_item_id, now, assigned, deleted, threads>>

\* (mutant) an unknown username is answered differently from a wrong password
login_leaky(username, password) ==
    LET user == authenticate_user(username, password) IN
    /\ request' = [op |-> "login", token |-> None,
                   args |-> [username |-> username, password |-> password]]
    /\ IF username \notin DOMAIN fake_users_db
       THEN response' = HTTPException(404, "User not found")
       ELSE IF user = None
       THEN response' = HTTPException(401, "Invalid credentials")
       ELSE response' = [status |-> 200,
                         body |-> [access_token |-> create_access_token(user[1].username),
                                   token_type |-> "bearer"]]
    /\ Frame

\* POST /token
login(username, password) ==
    LET user == authenticate_user(username, password) IN
    /\ request' = [op |-> "login", token |-> None,
                   args |-> [username |-> username, password |-> password]]
    /\ IF user = None
       THEN response' = HTTPException(401, "Invalid credentials")
       ELSE response' = [status |-> 200,
                         body |-> [access_token |-> create_access_token(user[1].username),
                                   token_type |-> "bearer"]]
    /\ Frame

\* GET /
root ==
    /\ request' = [op |-> "root", token |-> None, args |-> <<>>]
    /\ response' = [status |-> 200, body |-> [message |-> "Welcome to the Inventory Management API!"]]
    /\ Frame

\* GET /items/{item_id}
get_item(token, item_id) ==
    LET current_user == UserDependency(token) IN
    /\ request' = [op |-> "get_item", token |-> token, args |-> [item_id |-> item_id]]
    /\ IF current_user.status # 200 THEN response' = GuardFailure(current_user)
       ELSE IF ~Contains(inventory, item_id)
       THEN response' = HTTPException(404, "Item not found")
       ELSE response' = [status |-> 200,
                         body |-> InventoryItemResponse(
                                    Lookup(inventory, item_id) @@ [item_id |-> item_id])]
    /\ Frame

\* (mutant) the identifier taken from the size of the store
NewItemId_FromSize == Len(inventory) + 1

\* POST /items/ : item_id = next_item_id
NewItemId == next_item_id

\* (mutant) the increment lost
IncrementedId_Lost == next_item_id

\* (mutant) the counter advanced by two
IncrementedId_Twice == next_item_id + 2

\* POST /items/ : next_item_id += 1
IncrementedId == next_item_id + 1

\* POST /items/
add_item(token, item) ==
    LET current_user == AdminDependency(token) IN
    /\ request' = [op |-> "add_item", token |-> token, args |-> [item |-> item]]
    /\ IF current_user.status # 200
       THEN /\ response' = GuardFailure(current_user)
            /\ UNCHANGED <<inventory, next_item_id, assigned>>
       ELSE LET item_id == NewItemId
                stored == Store(inventory, item_id,
                                [created_by |-> current_user.username] @@ item)
            IN
            /\ inventory' = stored
            /\ next_item_id' = IncrementedId
            /\ assigned' = Append(assigned, [item_id |-> item_id,
                                              by |-> current_user.username])
            /\ response' = [status |-> 201,
                            body |-> InventoryItemResponse(
                                       Lookup(stored, item_id) @@ [item_id |-> item_id])]
    /\ UNCHANGED <<fake_users_db, now, deleted, threads>>

\* (mutant) created_by set to the updating admin
UpdatedRecord_Overwrite(existing, item, current_user) ==
    [created_by |-> current_user.username] @@ item

\* PUT /items/{item_id} : the record written over the existing one
UpdatedRecord(existing, item, current_user) ==
    [created_by |-> IF "created_by" \in DOMAIN existing
                    THEN existing.created_by
                    ELSE current_user.username] @@ item

\* (mutant) an upsert: existing = inventory.get(item_id, {}), no 404
update_item_upsert(token, item_id, item) ==
    LET current_user == AdminDependency(token) IN
    /\ request' = [op |-> "update_item", token |-> token,
                   args |-> [item_id |-> item_id, item |-> item]]
    /\ IF current_user.status # 200
       THEN /\ response' = GuardFailure(current_user)
            /\ UNCHANGED inventory
       ELSE LET existing == IF Contains(inventory, item_id)
                            THEN Lookup(inventory, item_id) ELSE <<>>
                stored == Store(inventory, item_id,
                                UpdatedRecord(existing, item, current_user))
            IN
            /\ inventory' = stored
            /\ response' = [status |-> 200,
                            body |-> InventoryItemResponse(
                                       Lookup(stored, item_id) @@ [item_id |-> item_id])]
    /\ UNCHANGED <<next_item_id, fake_users_db, now, assigned, deleted, threads>>

\* PUT /items/{item_id}
update_item(token, item_id, item) ==
    LET current_user == AdminDependency(token) IN
    /\ request' = [op |-> "update_item", token |-> token,
                   args |-> [item_id |-> item_id, item |-> item]]
    /\ IF current_user.status # 200
       THEN /\ response' = GuardFailure(current_user)
            /\ UNCHANGED inventory
       ELSE IF ~Contains(inventory, item_id)
       THEN /\ response' = HTTPException(404, "Item not found")
            /\ UNCHANGED inventory
       ELSE LET existing == Lookup(inventory, item_id)
                stored == Store(inventory, item_id,
                                UpdatedRecord(existing, item, current_user))
            IN
            /\ inventory' = stored
            /\ response' = [status |-> 200,
                            body |-> InventoryItemResponse(
                                       Lookup(stored, item_id) @@ [item_id |-> item_id])]
    /\ UNCHANGED <<next_item_id, fake_users_db, now, assigned, deleted, threads>>

\* (mutant) the freed identifier handed to the next add
delete_item_ReusesId(token, item_id) ==
    LET current_user == AdminDependency(token) IN
    /\ request' = [op |-> "delete_item", token |-> token, args |-> [item_id |-> item_id]]
    /\ IF current_user.status # 200
       THEN /\ response' = GuardFailure(current_user)
            /\ UNCHANGED <<inventory, deleted, next_item_id>>
       ELSE IF ~Contains(inventory, item_id)
       THEN /\ response' = HTTPException(404, "Item not found")
            /\ UNCHANGED <<inventory, deleted, next_item_id>>
       ELSE /\ inventory' = Remove(inventory, item_id)
            /\ deleted' = deleted \cup {item_id}
            /\ next_item_id' = item_id
            /\ response' = [status |-> 204, body |-> <<>>]
    /\ UNCHANGED <<fake_users_db, now, assigned, threads>>

\* DELETE /items/{item_id}
delete_item(token, item_id) ==
    LET current_user == AdminDependency(token) IN
    /\ request' = [op |-> "delete_item", token |-> token, args |-> [item_id |-> item_id]]
    /\ IF current_user.status # 200
       THEN /\ response' = GuardFailure(current_user)
            /\ UNCHANGED <<inventory, deleted>>
       ELSE IF ~Contains(inventory, item_id)
       THEN /\ response' = HTTPException(404, "Item not found")
            /\ UNCHANGED <<inventory, deleted>>
       ELSE /\ inventory' = Remove(inventory, item_id)
            /\ deleted' = deleted \cup {item_id}
            /\ response' = [status |-> 204, body |-> <<>>]
    /\ UNCHANGED <<next_item_id, fake_users_db, now, assigned, threads>>

\* (mutant) the bounds tested for truth, so that a bound of 0 is not applied
Skipped_Truthy(item, q) ==
    \/ /\ q.name # None /\ q.name[1] # <<>>
       /\ ~IsSubstring(Lower(q.name[1]), Lower(item.name))
    \/ q.min_price # None /\ q.min_price[1] # 0 /\ item.price < q.min_price[1]
    \/ q.max_price # None /\ q.max_price[1] # 0 /\ item.price > q.max_price[1]
    \/ q.min_quantity # None /\ q.min_quantity[1] # 0 /\ item.quantity < q.min_quantity[1]

\* GET /items/ : the four filters; TRUE when the loop skips the item (continue)
Skipped(item, q) ==
    \/ /\ q.name # None /\ q.name[1] # <<>>
       /\ ~IsSubstring(Lower(q.name[1]), Lower(item.name))
    \/ q.min_price # None /\ item.price < q.min_price[1]
    \/ q.max_price # None /\ item.price > q.max_price[1]
    \/ q.min_quantity # None /\ item.quantity < q.min_quantity[1]

\* GET /items/ : the loop over inventory.items() that builds results
RECURSIVE Results(_, _)
Results(d, q) ==
    IF d = <<>> THEN <<>>
    ELSE IF Skipped(Head(d).value, q) THEN Results(Tail(d), q)
    ELSE <<Head(d).value @@ [item_id |-> Head(d).key]>> \o Results(Tail(d), q)

\* x[sort_by] < y[sort_by]
KeyLess(x, y, sort_by) ==
    CASE sort_by = "name" -> StrLess(x.name, y.name)
      [] sort_by = "price" -> x.price < y.price
      [] sort_by = "quantity" -> x.quantity < y.quantity

\* list.sort(key=..., reverse=...): a stable sort, equal keys keeping their
\* order in both directions; x goes before the first element that must
\* follow it
RECURSIVE InsertInto(_, _, _, _)
InsertInto(s, x, sort_by, reverse) ==
    IF s = <<>> THEN <<x>>
    ELSE IF (IF reverse THEN KeyLess(Head(s), x, sort_by) ELSE KeyLess(x, Head(s), sort_by))
    THEN <<x>> \o s
    ELSE <<Head(s)>> \o InsertInto(Tail(s), x, sort_by, reverse)

\* (mutant) sorted ascending, then the list reversed for order=desc
RECURSIVE SortAscending(_, _)
SortAscending(s, sort_by) ==
    IF s = <<>> THEN <<>>
    ELSE InsertInto(SortAscending(SubSeq(s, 1, Len(s) - 1), sort_by),
                    s[Len(s)], sort_by, FALSE)

Sort_ThenReversed(s, sort_by, reverse) ==
    LET a == SortAscending(s, sort_by) IN
    IF reverse THEN [i \in DOMAIN a |-> a[Len(a) + 1 - i]] ELSE a

RECURSIVE Sort(_, _, _)
Sort(s, sort_by, reverse) ==
    IF s = <<>> THEN <<>>
    ELSE InsertInto(Sort(SubSeq(s, 1, Len(s) - 1), sort_by, reverse),
                    s[Len(s)], sort_by, reverse)

\* (mutant) results[skip : limit]
Paginated_ToLimit(results, skip, limit) == Slice(results, skip, limit)

\* GET /items/ : results[skip : skip + limit]
Paginated(results, skip, limit) == Slice(results, skip, skip + limit)

\* GET /items/ : the handler body, from the store and the query to the page
ListBody(d, q) ==
    LET reverse == q.order = "desc"
        results == Sort(Results(d, q), q.sort_by, reverse)
    IN [total |-> Len(results), skip |-> q.skip, limit |-> q.limit,
        items |-> Paginated(results, q.skip, q.limit)]

\* GET /items/
list_items(token, q) ==
    LET current_user == UserDependency(token) IN
    /\ request' = [op |-> "list_items", token |-> token, args |-> q]
    /\ IF current_user.status # 200 THEN response' = GuardFailure(current_user)
       ELSE response' = [status |-> 200, body |-> ListBody(inventory, q)]
    /\ Frame

\* (mutant) the error raised also when the draw equals error_rate
ErrorDrawn_Inclusive(draw, error_rate) == draw <= error_rate

\* GET /simulate-error : random.random() < error_rate
ErrorDrawn(draw, error_rate) == draw < error_rate

\* GET /simulate-error ; error_rate and the draw of random.random() in
\* hundredths, choice the pick of random.choice
simulate_error(token, error_rate, draw, choice) ==
    LET current_user == UserDependency(token) IN
    /\ request' = [op |-> "simulate_error", token |-> token,
                   args |-> [error_rate |-> error_rate]]
    /\ IF current_user.status # 200 THEN response' = GuardFailure(current_user)
       ELSE IF ErrorDrawn(draw, error_rate)
       THEN response' = HTTPException(choice, <<"Simulated error", choice>>)
       ELSE response' = [status |-> 200, body |-> [message |-> "Success - no error simulated"]]
    /\ Frame

\* GET /simulate-delay ; the handler sleeps, so the clock may have moved on
\* when it returns
simulate_delay(token, delay_seconds, elapsed) ==
    LET current_user == UserDependency(token) IN
    /\ request' = [op |-> "simulate_delay", token |-> token,
                   args |-> [delay_seconds |-> delay_seconds]]
    /\ IF current_user.status # 200
       THEN /\ response' = GuardFailure(current_user)
            /\ UNCHANGED now
       ELSE /\ now + elapsed <= MaxTime
            /\ now' = now + elapsed
            /\ response' = [status |-> 200,
                            body |-> [message |-> <<"Response delayed by", delay_seconds>>]]
    /\ UNCHANGED <<inventory, next_item_id, fake_users_db, assigned, deleted, threads>>

\* time passes between requests
Tick ==
    /\ now < MaxTime
    /\ now' = now + 1
    /\ UNCHANGED <<inventory, next_item_id, fake_users_db, request, response,
                   assigned, deleted, threads>>

-----------------------------------------------------------------------------
(* The requests the clients send *)

Usernames == {"admin", "ghost", "bob"}
Passwords == {"adminpw", "pw1", "pw2"}

\* models.py:52  role: str = "user"
DefaultRole == "user"

\* the first submits no role
RegisterRequests ==
    {RegisterRequest("bob", "pw1", None, DefaultRole),
     RegisterRequest("bob", "pw2", Some("Bob"), "admin"),
     RegisterRequest("admin", "pw1", None, "user")}

\* "La" and "pen"
Laptop == InventoryItem(<<76, 97>>, 10, 999, Some("High performance laptop"))
Pen == InventoryItem(<<112, 101, 110>>, 0, 2, None)
Items == {Laptop, Pen}

\* a token whose payload was altered after it was signed
Tampered(token, sub) == [token EXCEPT !.sub = sub]

\* no token; a fresh token of each user; an admin token from the start; a
\* tampered token
Tokens ==
    {None}
    \cup {Some(TokenFor(u, now)) : u \in Usernames}
    \cup {Some(TokenFor("admin", 0))}
    \cup {Some(Tampered(TokenFor("bob", now), "admin"))}

Query(name, min_price, max_price, min_quantity, skip, limit, sort_by, order) ==
    [name |-> name, min_price |-> min_price, max_price |-> max_price,
     min_quantity |-> min_quantity, skip |-> skip, limit |-> limit,
     sort_by |-> sort_by, order |-> order]

\* the defaults of list_items
DefaultQuery == Query(None, None, None, None, 0, 10, "name", "asc")

NoRequest == [op |-> "none", token |-> None, args |-> <<>>]
NoResponse == [status |-> 0, body |-> <<>>]

\* the worker threads of the pool that run the handlers, and a thread that
\* runs none
Workers == {"w1", "w2"}
IdleThread ==
    [pc |-> "idle", op |-> "none", username |-> "", item_id |-> 0, item |-> <<>>,
     existing |-> <<>>, incremented |-> 0, response |-> NoResponse]

Init ==
    /\ inventory = <<>>
    /\ next_item_id = 1
    /\ fake_users_db = SeedUsers
    /\ now = 0
    /\ request = NoRequest
    /\ response = NoResponse
    /\ assigned = <<>>
    /\ deleted = {}
    /\ threads = [w \in Workers |-> IdleThread]

\* the draws of random.random(), in hundredths, and of random.choice
Draws == {0, 29, 30, 99}
ErrorCodes == {500, 502, 503}

(* Spec: every endpoint, with every kind of token *)
Next ==
    \/ \E user \in RegisterRequests : register_user(user)
    \/ \E u \in Usernames, p \in Passwords : login(u, p)
    \/ root
    \/ \E t \in Tokens : list_items(t, DefaultQuery)
    \/ \E t \in Tokens, i \in 1..MaxAdds : get_item(t, i)
    \/ \E t \in Tokens, item \in Items : next_item_id <= MaxAdds /\ add_item(t, item)
    \/ \E t \in Tokens, i \in 1..MaxAdds : update_item(t, i, Pen)
    \/ \E t \in Tokens, i \in 1..MaxAdds : delete_item(t, i)
    \/ \E t \in Tokens, r \in {0, 100} : simulate_error(t, r, 50, 503)
    \/ \E t \in Tokens, e \in {0, 1} : simulate_delay(t, 5, e)
    \/ Tick

Spec == Init /\ [][Next]_vars

(* SpecStore: the item store under longer runs of add, update and delete,  *)
(* requested by the seeded admin and by bob (unknown, a user or an admin)  *)
StoreTokens == {Some(TokenFor(u, now)) : u \in {"admin", "bob"}}

NextStore ==
    \/ \E user \in {r \in RegisterRequests : r.username = "bob"} : register_user(user)
    \/ \E t \in StoreTokens : list_items(t, DefaultQuery)
    \/ \E t \in StoreTokens, i \in 1..MaxStoreAdds : get_item(t, i)
    \/ \E t \in StoreTokens, item \in Items :
          next_item_id <= MaxStoreAdds /\ add_item(t, item)
    \/ \E t \in StoreTokens, i \in 1..MaxStoreAdds, item \in Items : update_item(t, i, item)
    \/ \E t \in StoreTokens, i \in 1..MaxStoreAdds : delete_item(t, i)

SpecStore == Init /\ [][NextStore]_vars

(* SpecList: list_items applied once to every store and query of the sets  *)
(* below                                                                   *)

\* "Ba", "ab" and "b"; a quantity and a price below zero pass validation
ListItems ==
    {InventoryItem(<<66, 97>>, 5, 100, Some("first")),
     InventoryItem(<<97, 98>>, -1, 0, None),
     InventoryItem(<<98>>, 0, -5, None)}

\* the store holding, in ascending key order, f[k] under every key k >= from
\* for which f[k] is not None
RECURSIVE StoreFrom(_, _)
StoreFrom(f, from) ==
    IF from > MaxItems THEN <<>>
    ELSE (IF f[from] = None THEN <<>>
          ELSE <<[key |-> from, value |-> [created_by |-> "admin"] @@ f[from][1]]>>)
         \o StoreFrom(f, from + 1)

ListStores ==
    {StoreFrom(f, 1) : f \in [1..MaxItems -> {None} \cup {Some(b) : b \in ListItems}]}

\* name: absent, empty, "A"; the price and quantity bounds: absent or 0
ListQueries ==
    {Query(name, min_price, max_price, min_quantity, skip, limit, sort_by, order) :
        name \in {None, Some(<<>>), Some(<<65>>)},
        min_price \in {None, Some(0)},
        max_price \in {None, Some(0)},
        min_quantity \in {None, Some(0)},
        skip \in 0..MaxSkip,
        limit \in 1..MaxLimit,
        sort_by \in {"name", "price", "quantity"},
        order \in {"asc", "desc"}}

InitList ==
    /\ inventory \in ListStores
    /\ next_item_id = MaxItems + 1
    /\ fake_users_db = SeedUsers
    /\ now = 0
    /\ request = NoRequest
    /\ response = NoResponse
    /\ assigned = [k \in 1..MaxItems |-> [item_id |-> k, by |-> "admin"]]
    /\ deleted = (1..MaxItems) \ Keys(inventory)
    /\ threads = [w \in Workers |-> IdleThread]

NextList ==
    /\ request = NoRequest
    /\ \E q \in ListQueries : list_items(Some(TokenFor("admin", now)), q)

SpecList == InitList /\ [][NextList]_vars

-----------------------------------------------------------------------------
(* Vocabulary of the properties *)

\* the token's signature verifies, it has not expired, its subject is known
ValidToken(t) ==
    /\ t # None
    /\ t[1].sig = Sign(SECRET_KEY, t[1].sub, t[1].exp)
    /\ t[1].exp >= now
    /\ t[1].sub \in DOMAIN fake_users_db

\* an authenticated, non-disabled user
ActiveCaller(t) == ValidToken(t) /\ ~fake_users_db[t[1].sub].disabled

AdminCaller(t) == ActiveCaller(t) /\ fake_users_db[t[1].sub].role = "admin"

NonAdminCaller(t) == ActiveCaller(t) /\ fake_users_db[t[1].sub].role # "admin"

\* every record but the one under key i is the same in d and e
SameExcept(d, e, i) ==
    \A k \in (Keys(d) \cup Keys(e)) \ {i} :
        Contains(d, k) /\ Contains(e, k) /\ Lookup(d, k) = Lookup(e, k)

\* the step is the handling of the request that request' records
RegisterStep == request'.op = "register_user" /\ register_user(request'.args)
LoginStep ==
    request'.op = "login" /\ login(request'.args.username, request'.args.password)
ListStep == request'.op = "list_items" /\ list_items(request'.token, request'.args)
GetStep == request'.op = "get_item" /\ get_item(request'.token, request'.args.item_id)
AddStep == request'.op = "add_item" /\ add_item(request'.token, request'.args.item)
UpdateStep ==
    /\ request'.op = "update_item"
    /\ update_item(request'.token, request'.args.item_id, request'.args.item)
DeleteStep ==
    request'.op = "delete_item" /\ delete_item(request'.token, request'.args.item_id)
ErrorStep ==
    /\ request'.op = "simulate_error"
    /\ \E d \in Draws, c \in ErrorCodes :
         simulate_error(request'.token, request'.args.error_rate, d, c)
DelayStep ==
    /\ request'.op = "simulate_delay"
    /\ \E e \in {0, 1} : simulate_delay(request'.token, request'.args.delay_seconds, e)

-----------------------------------------------------------------------------
(* C1 *)

\* C1: every add_item that succeeds is assigned the next identifier: the k-th
\* one gets item_id = k, greater than every identifier assigned before, never
\* one a delete_item has freed, and never one still in the store.
C1_AddAssignsNextFreshId ==
    [][(AddStep /\ response'.status = 201) =>
        LET id == assigned'[Len(assigned')].item_id IN
        /\ Len(assigned') = Len(assigned) + 1
        /\ id = Len(assigned) + 1
        /\ \A k \in DOMAIN assigned : assigned[k].item_id < id
        /\ id \notin deleted
        /\ ~Contains(inventory, id)
        /\ Contains(inventory', id)
        /\ Keys(inventory') = Keys(inventory) \cup {id}]_vars

\* two adds, the second identifier deleted, a third add: it got 3, not 2
C1_Witness ==
    /\ request.op = "add_item" /\ response.status = 201
    /\ Len(assigned) = 3 /\ assigned[3].item_id = 3
    /\ 2 \in deleted
    /\ Keys(inventory) = {1, 3}

-----------------------------------------------------------------------------
(* C2 *)

\* C2: add_item, update_item and delete_item requested by an authenticated,
\* non-disabled user whose role is not "admin" end with 403 and leave the item
\* store and next_item_id unchanged; the item store changes only in a step of
\* one of these three requested by an admin; list_items and get_item are not
\* refused to any authenticated non-disabled user.
C2_AdminOnlyWrites ==
    [][/\ ((AddStep \/ UpdateStep \/ DeleteStep) /\ NonAdminCaller(request'.token))
            => /\ response'.status = 403
               /\ inventory' = inventory
               /\ next_item_id' = next_item_id
       /\ inventory' # inventory
            => (AddStep \/ UpdateStep \/ DeleteStep) /\ AdminCaller(request'.token)
       /\ (ListStep /\ ActiveCaller(request'.token)) => response'.status = 200
       /\ (GetStep /\ ActiveCaller(request'.token)) => response'.status \in {200, 404}]_vars

\* bob, registered with role "user", was refused the deletion of a stored item
C2_Witness ==
    /\ request.op = "delete_item" /\ response.status = 403
    /\ NonAdminCaller(request.token)
    /\ Contains(inventory, request.args.item_id)

-----------------------------------------------------------------------------
(* C3 *)

\* C3: each of the seven protected endpoints, called with no token, an expired
\* token, a token whose signature does not verify or a token of an unknown
\* subject, ends with 401 and leaves the item store, next_item_id and the user
\* directory unchanged.
C3_InvalidTokenUnauthorized ==
    [][((ListStep \/ GetStep \/ AddStep \/ UpdateStep \/ DeleteStep
            \/ ErrorStep \/ DelayStep)
        /\ ~ValidToken(request'.token))
       => /\ response'.status = 401
          /\ UNCHANGED <<inventory, next_item_id, fake_users_db>>]_vars

\* the admin's token from the start has expired, and the deletion of a stored
\* item was refused to it
C3_Witness ==
    /\ request.op = "delete_item" /\ response.status = 401
    /\ request.token = Some(TokenFor("admin", 0))
    /\ now > ACCESS_TOKEN_EXPIRE
    /\ Contains(inventory, request.args.item_id)

-----------------------------------------------------------------------------
(* C4 *)

\* C4: update_item on an existing id by any admin answers 200, replaces name,
\* quantity, price and description with the body, keeps created_by equal to
\* the username of the admin whose add_item created the item, and changes
\* neither the keys of the store and their order, nor any other record, nor
\* next_item_id.
C4_UpdateKeepsCreator ==
    [][(UpdateStep /\ AdminCaller(request'.token)
        /\ Contains(inventory, request'.args.item_id)) =>
            LET i == request'.args.item_id
                item == request'.args.item
                new == Lookup(inventory', i)
            IN
            /\ response'.status = 200
            /\ new.name = item.name /\ new.quantity = item.quantity
            /\ new.price = item.price /\ new.description = item.description
            /\ new.created_by = Lookup(inventory, i).created_by
            /\ \E k \in DOMAIN assigned :
                 assigned[k].item_id = i /\ assigned[k].by = new.created_by
            /\ [k \in DOMAIN inventory' |-> inventory'[k].key]
                 = [k \in DOMAIN inventory |-> inventory[k].key]
            /\ SameExcept(inventory, inventory', i)
            /\ next_item_id' = next_item_id]_vars

\* an item added by admin has been updated by bob, an admin too, with another
\* body: the record is the body, created_by still admin
C4_Witness ==
    /\ request.op = "update_item" /\ response.status = 200
    /\ request.token[1].sub = "bob"
    /\ Lookup(inventory, request.args.item_id).created_by = "admin"
    /\ Lookup(inventory, request.args.item_id).name = Pen.name
    /\ \E k \in DOMAIN assigned :
         assigned[k].item_id = request.args.item_id /\ assigned[k].by = "admin"

-----------------------------------------------------------------------------
(* C5 *)

\* C5: once delete_item has succeeded on i, i is in no later store, get_item
\* on i answers 404 and no list_items page holds an entry with item_id i,
\* whatever was requested in between; the delete removes the record of i and
\* nothing else.
C5_DeletedStaysGone ==
    [][/\ \A i \in deleted' : ~Contains(inventory', i)
       /\ (GetStep /\ ActiveCaller(request'.token) /\ request'.args.item_id \in deleted)
            => response'.status = 404
       /\ (ListStep /\ ActiveCaller(request'.token))
            => \A k \in DOMAIN response'.body.items :
                  response'.body.items[k].item_id \notin deleted
       /\ (DeleteStep /\ response'.status = 204)
            => /\ request'.args.item_id \in deleted'
               /\ Keys(inventory') = Keys(inventory) \ {request'.args.item_id}
               /\ SameExcept(inventory, inventory', request'.args.item_id)]_vars

\* identifier 1 was deleted, another item was added since, and get_item on 1
\* answered 404
C5_Witness ==
    /\ request.op = "get_item" /\ response.status = 404
    /\ request.args.item_id = 1 /\ 1 \in deleted
    /\ Len(assigned) >= 2 /\ inventory # <<>>

-----------------------------------------------------------------------------
(* C6 *)

\* C6: get_item, update_item and delete_item on an id that is not in the store
\* answer 404 and leave the store and next_item_id unchanged; update_item
\* creates no record.
C6_AbsentIdNotFound ==
    [][/\ (GetStep /\ ActiveCaller(request'.token)
           /\ ~Contains(inventory, request'.args.item_id))
            => response'.status = 404 /\ UNCHANGED <<inventory, next_item_id>>
       /\ ((UpdateStep \/ DeleteStep) /\ AdminCaller(request'.token)
           /\ ~Contains(inventory, request'.args.item_id))
            => /\ response'.status = 404
               /\ ~Contains(inventory', request'.args.item_id)
               /\ UNCHANGED <<inventory, next_item_id>>]_vars

\* update_item on an id never assigned, with other items in the store, answered 404
C6_Witness ==
    /\ request.op = "update_item" /\ response.status = 404
    /\ request.args.item_id >= next_item_id
    /\ inventory # <<>>

-----------------------------------------------------------------------------
(* C7 *)

\* C7: register_user with a username not in the directory answers 201 and adds
\* one record for it (the role and full_name submitted, enabled, a hash the
\* password verifies against); with a username already in the directory it
\* answers 400 and leaves the whole directory as it was.
C7_RegisterOnceOnly ==
    [][RegisterStep =>
        LET user == request'.args IN
            IF user.username \in DOMAIN fake_users_db
            THEN /\ response'.status = 400
                 /\ fake_users_db' = fake_users_db
            ELSE /\ response'.status = 201
                 /\ DOMAIN fake_users_db' = DOMAIN fake_users_db \cup {user.username}
                 /\ \A u \in DOMAIN fake_users_db : fake_users_db'[u] = fake_users_db[u]
                 /\ fake_users_db'[user.username].username = user.username
                 /\ fake_users_db'[user.username].role = user.role
                 /\ fake_users_db'[user.username].full_name = user.full_name
                 /\ ~fake_users_db'[user.username].disabled
                 /\ verify_password(user.password,
                                    fake_users_db'[user.username].hashed_password)]_vars

\* bob is registered as a user; a second registration of bob, as an admin with
\* another password, was refused and the record is the first one
C7_Witness ==
    /\ request.op = "register_user" /\ response.status = 400
    /\ request.args.username = "bob" /\ request.args.role = "admin"
    /\ fake_users_db["bob"].role = "user"
    /\ verify_password("pw1", fake_users_db["bob"].hashed_password)

-----------------------------------------------------------------------------
(* C8 *)

\* C8: login with the username and password of a known, non-disabled user
\* answers 200 with a bearer token whose subject is the username; login with an
\* unknown username and login with a wrong password get one and the same
\* response, 401 "Invalid credentials"; no login changes the user directory or
\* the item store.
C8_LoginOutcome ==
    [][LoginStep =>
        LET u == request'.args.username
            p == request'.args.password
        IN
            /\ UNCHANGED <<fake_users_db, inventory, next_item_id>>
            /\ (u \in DOMAIN fake_users_db
                /\ fake_users_db[u].hashed_password = get_password_hash(p)
                /\ ~fake_users_db[u].disabled)
               => /\ response'.status = 200
                  /\ response'.body.token_type = "bearer"
                  /\ response'.body.access_token.sub = u
                  /\ ValidToken(Some(response'.body.access_token))
            /\ (u \notin DOMAIN fake_users_db
                \/ (u \in DOMAIN fake_users_db
                    /\ fake_users_db[u].hashed_password # get_password_hash(p)))
               => response' = [status |-> 401,
                               body |-> [detail |-> "Invalid credentials"]]]_vars

\* bob, registered in this run, logged in and got a token with subject bob
C8_Witness ==
    /\ request.op = "login" /\ response.status = 200
    /\ request.args.username = "bob"
    /\ response.body.access_token.sub = "bob"

-----------------------------------------------------------------------------
(* C9 and C10: list_items as a function of the store and the query *)

\* the item satisfies every predicate the query supplies
Satisfies(item, q) ==
    /\ q.name # None => IsSubstring(Lower(q.name[1]), Lower(item.name))
    /\ q.min_price # None => item.price >= q.min_price[1]
    /\ q.max_price # None => item.price <= q.max_price[1]
    /\ q.min_quantity # None => item.quantity >= q.min_quantity[1]

MatchingKeys(d, q) == {k \in Keys(d) : Satisfies(Lookup(d, k), q)}

\* the whole filtered, sorted sequence: the first page of the largest size
FullListing(d, q) == ListBody(d, [q EXCEPT !.skip = 0, !.limit = 50]).items

Listed == request.op = "list_items" /\ response.status = 200

\* C9: total is the number of stored items that pass the filters, whatever
\* skip and limit are, and items is positions [skip, skip+limit) of the
\* filtered, sorted sequence; with skip >= total the page is empty.
C9_Pagination ==
    Listed =>
        LET q == request.args
            page == response.body.items
            full == FullListing(inventory, q)
            total == Cardinality(MatchingKeys(inventory, q))
            rest == IF total > q.skip THEN total - q.skip ELSE 0
        IN
        /\ response.body.total = total
        /\ Len(full) = total
        /\ Len(page) = Min(q.limit, rest)
        /\ \A j \in DOMAIN page : page[j] = full[q.skip + j]
        /\ response.body.skip = q.skip /\ response.body.limit = q.limit

\* three items match, and the page of size 1 after 1 holds the second only
C9_Witness ==
    /\ Listed
    /\ response.body.total = 3
    /\ request.args.skip = 1 /\ request.args.limit = 1
    /\ Len(response.body.items) = 1
    /\ request.args.min_quantity = None

\* C10: the items list_items returns are stored items that satisfy every
\* supplied predicate at once (name a case-insensitive substring, the bounds
\* inclusive, a bound of 0 applied, an omitted parameter no constraint), each
\* as stored; and every stored item that satisfies them all is counted and is
\* in the filtered sequence.
C10_FilterIsConjunction ==
    Listed =>
        LET q == request.args
            page == response.body.items
            full == FullListing(inventory, q)
        IN
        /\ \A j \in DOMAIN page :
            /\ page[j].item_id \in MatchingKeys(inventory, q)
            /\ page[j] = Lookup(inventory, page[j].item_id)
                            @@ [item_id |-> page[j].item_id]
        /\ {full[j].item_id : j \in DOMAIN full} = MatchingKeys(inventory, q)
        /\ response.body.total = Cardinality(MatchingKeys(inventory, q))
        /\ (q.skip = 0 /\ response.body.total <= q.limit) =>
             {page[j].item_id : j \in DOMAIN page} = MatchingKeys(inventory, q)

\* name "A", min_price 0 and max_price 0 together keep "ab" (price 0) only, of
\* a store that also holds "Ba" (price 100) and "b" (price -5)
C10_Witness ==
    /\ Listed
    /\ request.args.name = Some(<<65>>)
    /\ request.args.min_price = Some(0) /\ request.args.max_price = Some(0)
    /\ request.args.min_quantity = None
    /\ Len(inventory) = 3
    /\ {inventory[k].value.price : k \in DOMAIN inventory} = {100, 0, -5}
    /\ response.body.total = 1
    /\ request.args.skip = 0
    /\ response.body.items[1].price = 0

-----------------------------------------------------------------------------
(* C11 *)

\* the position of key k in the store: its rank in insertion order
Position(d, k) == CHOOSE i \in DOMAIN d : d[i].key = k

\* the sequence is ordered by sort_by in the direction of order, entries with
\* equal keys in the order of their positions in the store d, which is the
\* order of their item_ids
OrderedStable(seq, d, sort_by, order) ==
    \A a, b \in DOMAIN seq :
        a < b =>
            /\ order = "asc" => ~KeyLess(seq[b], seq[a], sort_by)
            /\ order = "desc" => ~KeyLess(seq[a], seq[b], sort_by)
            /\ (~KeyLess(seq[a], seq[b], sort_by) /\ ~KeyLess(seq[b], seq[a], sort_by))
                 => /\ Position(d, seq[a].item_id) < Position(d, seq[b].item_id)
                    /\ seq[a].item_id < seq[b].item_id

\* C11: list_items returns the filtered items ordered by sort_by, non-decreasing
\* for order=asc and non-increasing for order=desc, items with equal keys in
\* their insertion order in the store (ascending item_id) in both directions.
C11_SortedStable ==
    Listed =>
        /\ OrderedStable(FullListing(inventory, request.args), inventory,
                         request.args.sort_by, request.args.order)
        /\ OrderedStable(response.body.items, inventory,
                         request.args.sort_by, request.args.order)

\* order=desc by price: the page holds two items of equal price, the one
\* stored first before the other, and the store holds a cheaper third
C11_Witness ==
    /\ Listed
    /\ request.args.order = "desc" /\ request.args.sort_by = "price"
    /\ Len(response.body.items) = 2 /\ response.body.total = 3
    /\ response.body.items[1].price = response.body.items[2].price
    /\ response.body.items[1].item_id < response.body.items[2].item_id
    /\ \E k \in DOMAIN inventory : inventory[k].value.price < response.body.items[1].price

-----------------------------------------------------------------------------
(* C12 *)

\* C12: the response of get_item on an existing id is the stored record merged
\* with its id: item_id equal to the requested id together with name, quantity,
\* price, description and created_by of the record, no field removed.
C12_GetReturnsRecordWithId ==
    (request.op = "get_item" /\ response.status = 200) =>
        /\ Contains(inventory, request.args.item_id)
        /\ "item_id" \in DOMAIN response.body
        /\ response.body =
             Lookup(inventory, request.args.item_id)
                @@ [item_id |-> request.args.item_id]

-----------------------------------------------------------------------------
(* SpecDiag: the error simulation, for every error_rate, draw and choice, over
   stores of up to MaxAdds items and every kind of token *)

\* error_rate in hundredths: the ends of its range and the default
ErrorRates == {0, 30, 100}

NextDiag ==
    \/ \E item \in Items :
         next_item_id <= MaxAdds /\ add_item(Some(TokenFor("admin", now)), item)
    \/ \E t \in Tokens, r \in ErrorRates, d \in Draws, c \in ErrorCodes :
         simulate_error(t, r, d, c)
    \/ Tick

SpecDiag == Init /\ [][NextDiag]_vars

(* C13 *)

SuccessBody == [message |-> "Success - no error simulated"]

\* C13: for a caller who passes the guard, simulate_error with error_rate 0
\* returns the success message and with error_rate 1 an error of status 500,
\* 502 or 503, whatever the draw in [0, 1); for any error_rate the response is
\* the success message or an error with one of those three codes; the store
\* and next_item_id are unchanged.
C13_SimulateErrorOutcomes ==
    [][(ErrorStep /\ ActiveCaller(request'.token)) =>
          /\ request'.args.error_rate = 0 =>
                (response'.status = 200 /\ response'.body = SuccessBody)
          /\ request'.args.error_rate = 100 => response'.status \in {500, 502, 503}
          /\ \/ response'.status = 200 /\ response'.body = SuccessBody
             \/ /\ response'.status \in {500, 502, 503}
                /\ response'.body.detail = <<"Simulated error", response'.status>>
          /\ inventory' = inventory
          /\ next_item_id' = next_item_id]_vars

\* error_rate 1 answered with 502 while the store holds an item
C13_Witness ==
    /\ request.op = "simulate_error" /\ request.args.error_rate = 100
    /\ ActiveCaller(request.token)
    /\ response.status = 502
    /\ inventory # <<>>

-----------------------------------------------------------------------------
(* The handlers that write the store, run in worker threads: one action per
   statement. A thread's pc names the line of routes.py it executes next; the
   dependency (the admin guard) runs before the handler body. Each worker
   thread serves one request. *)

\* an exception no handler catches (a KeyError of inventory[item_id]) is
\* answered 500 by the server
UnhandledError == [status |-> 500, body |-> [detail |-> "Internal Server Error"]]

ThreadFrame == UNCHANGED <<fake_users_db, now, request, response>>

Finished(t, resp) == [t EXCEPT !.pc = "done", !.response = resp]

\* a worker thread takes the request op: Depends(get_admin_user), then the body
Begin(w, op, token, item_id, item) ==
    LET current_user == AdminDependency(token) IN
    /\ threads[w].pc = "idle"
    /\ threads' = [threads EXCEPT ![w] =
         IF current_user.status # 200
         THEN [IdleThread EXCEPT !.pc = "done", !.op = op,
                                 !.response = GuardFailure(current_user)]
         ELSE [IdleThread EXCEPT !.pc = op, !.op = op,
                                 !.username = current_user.username,
                                 !.item_id = item_id, !.item = item]]
    /\ UNCHANGED <<inventory, next_item_id, assigned, deleted>>
    /\ ThreadFrame

\* routes.py:121  item_id = next_item_id
add_item_121(w) ==
    /\ threads[w].pc = "add_item"
    /\ threads' = [threads EXCEPT ![w].item_id = NewItemId, ![w].pc = "add_item:122"]
    /\ UNCHANGED <<inventory, next_item_id, assigned, deleted>>
    /\ ThreadFrame

\* routes.py:122-125  inventory[item_id] = {**item.dict(), "created_by": ...}
add_item_122(w) ==
    LET t == threads[w] IN
    /\ t.pc = "add_item:122"
    /\ inventory' = Store(inventory, t.item_id, [created_by |-> t.username] @@ t.item)
    /\ threads' = [threads EXCEPT ![w].pc = "add_item:126"]
    /\ UNCHANGED <<next_item_id, assigned, deleted>>
    /\ ThreadFrame

\* routes.py:126  next_item_id += 1 : the global is loaded and incremented ...
add_item_126_load(w) ==
    /\ threads[w].pc = "add_item:126"
    /\ threads' = [threads EXCEPT ![w].incremented = IncrementedId,
                                  ![w].pc = "add_item:126:store"]
    /\ UNCHANGED <<inventory, next_item_id, assigned, deleted>>
    /\ ThreadFrame

\* ... and the result stored back, another thread possibly running in between
add_item_126_store(w) ==
    /\ threads[w].pc = "add_item:126:store"
    /\ next_item_id' = threads[w].incremented
    /\ threads' = [threads EXCEPT ![w].pc = "add_item:127"]
    /\ UNCHANGED <<inventory, assigned, deleted>>
    /\ ThreadFrame

\* routes.py:127  return {"item_id": item_id, **inventory[item_id]}
add_item_127(w) ==
    LET t == threads[w] IN
    /\ t.pc = "add_item:127"
    /\ IF ~Contains(inventory, t.item_id)
       THEN /\ threads' = [threads EXCEPT ![w] = Finished(t, UnhandledError)]
            /\ UNCHANGED assigned
       ELSE /\ threads' = [threads EXCEPT ![w] = Finished(t,
                 [status |-> 201,
                  body |-> InventoryItemResponse(
                             Lookup(inventory, t.item_id) @@ [item_id |-> t.item_id])])]
            /\ assigned' = Append(assigned, [item_id |-> t.item_id, by |-> t.username])
    /\ UNCHANGED <<inventory, next_item_id, deleted>>
    /\ ThreadFrame

\* routes.py:133-134  if item_id not in inventory: raise HTTPException(404)
update_item_133(w) ==
    LET t == threads[w] IN
    /\ t.pc = "update_item"
    /\ threads' = [threads EXCEPT ![w] =
         IF ~Contains(inventory, t.item_id)
         THEN Finished(t, HTTPException(404, "Item not found"))
         ELSE [t EXCEPT !.pc = "update_item:135"]]
    /\ UNCHANGED <<inventory, next_item_id, assigned, deleted>>
    /\ ThreadFrame

\* routes.py:135  existing = inventory[item_id]
update_item_135(w) ==
    LET t == threads[w] IN
    /\ t.pc = "update_item:135"
    /\ threads' = [threads EXCEPT ![w] =
         IF ~Contains(inventory, t.item_id)
         THEN Finished(t, UnhandledError)
         ELSE [t EXCEPT !.existing = Lookup(inventory, t.item_id),
                        !.pc = "update_item:136"]]
    /\ UNCHANGED <<inventory, next_item_id, assigned, deleted>>
    /\ ThreadFrame

\* routes.py:136-139  inventory[item_id] = {**item.dict(), "created_by": ...}
update_item_136(w) ==
    LET t == threads[w] IN
    /\ t.pc = "update_item:136"
    /\ inventory' = Store(inventory, t.item_id,
                          UpdatedRecord(t.existing, t.item, [username |-> t.username]))
    /\ threads' = [threads EXCEPT ![w].pc = "update_item:140"]
    /\ UNCHANGED <<next_item_id, assigned, deleted>>
    /\ ThreadFrame

\* routes.py:140  return {"item_id": item_id, **inventory[item_id]}
update_item_140(w) ==
    LET t == threads[w] IN
    /\ t.pc = "update_item:140"
    /\ threads' = [threads EXCEPT ![w] =
         IF ~Contains(inventory, t.item_id)
         THEN Finished(t, UnhandledError)
         ELSE Finished(t, [status |-> 200,
                           body |-> InventoryItemResponse(
                                      Lookup(inventory, t.item_id)
                                         @@ [item_id |-> t.item_id])])]
    /\ UNCHANGED <<inventory, next_item_id, assigned, deleted>>
    /\ ThreadFrame

\* routes.py:145-146  if item_id not in inventory: raise HTTPException(404)
delete_item_145(w) ==
    LET t == threads[w] IN
    /\ t.pc = "delete_item"
    /\ threads' = [threads EXCEPT ![w] =
         IF ~Contains(inventory, t.item_id)
         THEN Finished(t, HTTPException(404, "Item not found"))
         ELSE [t EXCEPT !.pc = "delete_item:147"]]
    /\ UNCHANGED <<inventory, next_item_id, assigned, deleted>>
    /\ ThreadFrame

\* routes.py:147  del inventory[item_id]
delete_item_147(w) ==
    LET t == threads[w] IN
    /\ t.pc = "delete_item:147"
    /\ IF ~Contains(inventory, t.item_id)
       THEN /\ threads' = [threads EXCEPT ![w] = Finished(t, UnhandledError)]
            /\ UNCHANGED inventory
       ELSE /\ inventory' = Remove(inventory, t.item_id)
            /\ threads' = [threads EXCEPT ![w].pc = "delete_item:148"]
    /\ UNCHANGED <<next_item_id, assigned, deleted>>
    /\ ThreadFrame

\* routes.py:148  return Response(status_code=204)
delete_item_148(w) ==
    LET t == threads[w] IN
    /\ t.pc = "delete_item:148"
    /\ threads' = [threads EXCEPT ![w] = Finished(t, [status |-> 204, body |-> <<>>])]
    /\ deleted' = deleted \cup {t.item_id}
    /\ UNCHANGED <<inventory, next_item_id, assigned>>
    /\ ThreadFrame

(* SpecRaceAdd: add_item requests of the worker threads, interleaved *)
NextRaceAdd ==
    \/ \E w \in Workers, t \in StoreTokens, item \in Items :
         Begin(w, "add_item", t, 0, item)
    \/ \E w \in Workers : add_item_121(w)
    \/ \E w \in Workers : add_item_122(w)
    \/ \E w \in Workers : add_item_126_load(w)
    \/ \E w \in Workers : add_item_126_store(w)
    \/ \E w \in Workers : add_item_127(w)

SpecRaceAdd == Init /\ [][NextRaceAdd]_vars

(* SpecRaceUpdate: items added one request at a time, then update_item and
   delete_item requests of the worker threads, interleaved *)
NextRaceUpdate ==
    \/ \E item \in Items :
         next_item_id <= MaxAdds /\ add_item(Some(TokenFor("admin", now)), item)
    \/ \E w \in Workers, t \in StoreTokens, i \in 1..MaxAdds :
         Begin(w, "update_item", t, i, Pen)
    \/ \E w \in Workers, t \in StoreTokens, i \in 1..MaxAdds :
         Begin(w, "delete_item", t, i, <<>>)
    \/ \E w \in Workers : update_item_133(w)
    \/ \E w \in Workers : update_item_135(w)
    \/ \E w \in Workers : update_item_136(w)
    \/ \E w \in Workers : update_item_140(w)
    \/ \E w \in Workers : delete_item_145(w)
    \/ \E w \in Workers : delete_item_147(w)
    \/ \E w \in Workers : delete_item_148(w)

SpecRaceUpdate == Init /\ [][NextRaceUpdate]_vars

-----------------------------------------------------------------------------
(* C14 *)

\* the threads whose add_item has written the store, has stored the counter,
\* has returned 201
AddsWritten ==
    {w \in Workers : threads[w].pc \in {"add_item:126", "add_item:126:store",
                                        "add_item:127"}
                     \/ (threads[w].op = "add_item" /\ threads[w].response.status = 201)}
AddsCounted ==
    {w \in Workers : threads[w].pc = "add_item:127"
                     \/ (threads[w].op = "add_item" /\ threads[w].response.status = 201)}
AddsCompleted ==
    {w \in Workers : threads[w].op = "add_item" /\ threads[w].response.status = 201}

\* C14: add_item takes no lock, its statements interleave with those of
\* another add_item. In every state of such a run: next_item_id is at least 1
\* (at least 2 once an add has stored the counter) and at most 1 + the adds
\* that have stored it, so it never exceeds 1 + the completed adds by more than
\* the adds in flight, while nothing keeps it from being lower; the store
\* holds one record per identifier assigned, so two adds assigned the same
\* identifier leave a single record, that of one of them, the other's lost.
\* (The state in which both were assigned the same identifier, one record is
\* lost and next_item_id is lower than 1 + the completed adds is C14_Witness.)
C14_UnprotectedAdd ==
    /\ next_item_id >= 1
    /\ AddsCounted # {} => next_item_id >= 2
    /\ next_item_id <= 1 + Cardinality(AddsCounted)
    /\ Len(inventory) = Cardinality({threads[w].item_id : w \in AddsWritten})
    /\ \A w \in AddsWritten :
         /\ Contains(inventory, threads[w].item_id)
         /\ \E v \in AddsWritten :
              /\ threads[v].item_id = threads[w].item_id
              /\ Lookup(inventory, threads[w].item_id)
                   = [created_by |-> threads[v].username] @@ threads[v].item

\* both requests returned 201 with the same identifier, the store holds the
\* record of one of them only although their bodies differ, and next_item_id
\* is lower than 1 + the number of completed adds
C14_Witness ==
    /\ AddsCompleted = Workers
    /\ threads["w1"].item_id = threads["w2"].item_id
    /\ threads["w1"].item # threads["w2"].item
    /\ \E w \in Workers :
         Lookup(inventory, threads[w].item_id).name # threads[w].item.name
    /\ Len(inventory) = 1
    /\ next_item_id < 1 + Cardinality(AddsCompleted)

-----------------------------------------------------------------------------
(* C15 *)

\* an id whose delete_item has returned 204 is absent from the store
DeletedAbsent ==
    \A w \in Workers :
        (threads[w].op = "delete_item" /\ threads[w].response.status = 204)
            => ~Contains(inventory, threads[w].item_id)

\* an update_item that passed the admin guard has ended with 200 or 404
UpdateEndsCleanly ==
    \A w \in Workers :
        (threads[w].op = "update_item" /\ threads[w].pc = "done"
           /\ threads[w].username # "")
            => threads[w].response.status \in {200, 404}

\* C15: with update_item and delete_item on the same existing id interleaved
\* statement by statement, once delete_item has returned 204 the id is absent
\* from the store in every later state, and update_item ends only with 200 or
\* 404, never with an unhandled failure of reading a record removed after its
\* membership check.
C15_DeleteWinsUpdateClean == DeletedAbsent /\ UpdateEndsCleanly

-----------------------------------------------------------------------------
(* C16 *)

\* an account registered over the API (not seeded) whose role is "admin"
SelfRegisteredAdmin(u) ==
    /\ u \in DOMAIN fake_users_db
    /\ u \notin DOMAIN SeedUsers
    /\ fake_users_db[u].role = "admin"

\* C16: register_user, which has no authentication dependency, stores the
\* submitted role as it is ("user" when none is submitted) and the account
\* enabled; login of such an account with the submitted password returns a
\* token that passes the admin guard whenever the submitted role is "admin";
\* with that token add_item succeeds, and update_item and delete_item succeed
\* on every existing id.
C16_SelfRegisteredAdminWrites ==
    [][/\ (RegisterStep /\ request'.args.username \notin DOMAIN fake_users_db) =>
            LET u == request'.args.username IN
            /\ response'.status = 201
            /\ fake_users_db'[u].role = request'.args.role
            /\ ~fake_users_db'[u].disabled
            /\ verify_password(request'.args.password, fake_users_db'[u].hashed_password)
       /\ (LoginStep /\ SelfRegisteredAdmin(request'.args.username)
             /\ verify_password(request'.args.password,
                                fake_users_db[request'.args.username].hashed_password)) =>
            /\ response'.status = 200
            /\ response'.body.access_token.sub = request'.args.username
            /\ get_admin_user(Some(response'.body.access_token)).status = 200
       /\ (ValidToken(request'.token) /\ SelfRegisteredAdmin(request'.token[1].sub)) =>
            /\ AddStep =>
                 /\ response'.status = 201
                 /\ Contains(inventory', next_item_id)
                 /\ Lookup(inventory', next_item_id).created_by = request'.token[1].sub
            /\ (UpdateStep /\ Contains(inventory, request'.args.item_id)) =>
                 /\ response'.status = 200
                 /\ Lookup(inventory', request'.args.item_id).name = request'.args.item.name
            /\ (DeleteStep /\ Contains(inventory, request'.args.item_id)) =>
                 /\ response'.status = 204
                 /\ ~Contains(inventory', request'.args.item_id)]_vars

\* bob, registered in this run with role "admin", has added an item with a
\* token issued to bob
C16_Witness ==
    /\ request.op = "add_item" /\ response.status = 201
    /\ request.token # None /\ request.token[1].sub = "bob"
    /\ SelfRegisteredAdmin("bob")
    /\ \E k \in DOMAIN inventory : inventory[k].value.created_by = "bob"

-----------------------------------------------------------------------------
(* C17 *)

\* next_item_id is at least 1, above every key of the store, and 1 + the
\* number of adds that succeeded
CounterInvariant ==
    /\ next_item_id >= 1
    /\ \A k \in Keys(inventory) : k < next_item_id
    /\ next_item_id = 1 + Len(assigned)

\* C17: with requests handled one at a time, in every reachable state
\* next_item_id is at least 1, greater than every key of the store and equal to
\* 1 + the number of successful adds; only a successful add_item changes it,
\* by exactly +1; update_item, delete_item, the reads and every failed request
\* leave it unchanged.
C17_CounterTracksAdds ==
    /\ []CounterInvariant
    /\ [][/\ next_item_id' # next_item_id => (AddStep /\ response'.status = 201)
          /\ (AddStep /\ response'.status = 201) => next_item_id' = next_item_id + 1
          /\ (AddStep /\ response'.status # 201) => next_item_id' = next_item_id
          /\ (UpdateStep \/ DeleteStep \/ GetStep \/ ListStep \/ RegisterStep)
               => next_item_id' = next_item_id]_vars

\* three adds, then a delete of the newest item, an update and a delete of an
\* absent id: the counter is still 4, above the keys 1 and 2
C17_Witness ==
    /\ next_item_id = 4 /\ Len(assigned) = 3
    /\ Keys(inventory) = {1, 2} /\ 3 \in deleted
    /\ request.op = "delete_item" /\ response.status = 404
    /\ \E k \in DOMAIN inventory : inventory[k].value.name = Pen.name

-----------------------------------------------------------------------------
(* C18 *)

\* the add that created the record now under key k: the last one assigned k
CreatorOf(k) ==
    assigned[CHOOSE n \in DOMAIN assigned :
                /\ assigned[n].item_id = k
                /\ \A m \in DOMAIN assigned : assigned[m].item_id = k => m <= n].by

\* every stored record has created_by, the username of a user of the directory
\* whose role is "admin": the one whose add_item created the record
CreatedByAdmin ==
    \A n \in DOMAIN inventory :
        LET record == inventory[n].value IN
        /\ "created_by" \in DOMAIN record
        /\ record.created_by \in DOMAIN fake_users_db
        /\ fake_users_db[record.created_by].role = "admin"
        /\ \E m \in DOMAIN assigned : assigned[m].item_id = inventory[n].key
        /\ record.created_by = CreatorOf(inventory[n].key)

\* C18: in every reachable state each stored record has a created_by field
\* whose value is the username of a user in the directory whose role is "admin",
\* the admin whose add_item created the record; so update_item always finds
\* created_by in the existing record and never falls back to the username of
\* the updating admin.
C18_CreatedByIsTheAddingAdmin ==
    /\ []CreatedByAdmin
    /\ [][(UpdateStep /\ response'.status = 200) =>
            LET existing == Lookup(inventory, request'.args.item_id) IN
            /\ "created_by" \in DOMAIN existing
            /\ Lookup(inventory', request'.args.item_id).created_by = existing.created_by]_vars

\* bob, registered with role "admin", has updated the item the seeded admin
\* added: created_by is still admin
C18_Witness ==
    /\ request.op = "update_item" /\ response.status = 200
    /\ request.token[1].sub = "bob"
    /\ Lookup(inventory, request.args.item_id).created_by = "admin"
    /\ Lookup(inventory, request.args.item_id).name = request.args.item.name
    /\ \E n \in DOMAIN inventory : inventory[n].value.created_by = "bob"

-----------------------------------------------------------------------------
(* main.py: the self-contained application. Its store is main.py's own
   module variable inventory (main.py:16), item_id -> InventoryItem, here the
   variable inventory; the caller supplies item_id and there is no
   authentication. The variables of routes.py play no part. *)

\* the item_ids the callers of main.py supply
MaxMainId == 2

MainFrame == UNCHANGED <<next_item_id, fake_users_db, now, assigned, deleted, threads>>

MainRequest(op, args) == [op |-> op, token |-> None, args |-> args]

\* GET /
read_root ==
    /\ request' = MainRequest("main.read_root", <<>>)
    /\ response' = [status |-> 200,
                    body |-> [message |-> "Welcome to the Inventory Management API!"]]
    /\ UNCHANGED inventory
    /\ MainFrame

\* (mutant) no identifier counts as taken
IdTaken_Never(item_id) == FALSE

\* main.py:26  item_id in inventory
IdTaken(item_id) == Contains(inventory, item_id)

\* POST /items/
main_add_item(item_id, item) ==
    /\ request' = MainRequest("main.add_item", [item_id |-> item_id, item |-> item])
    /\ IF IdTaken(item_id)
       THEN /\ response' = HTTPException(400, "Item ID already exists")
            /\ UNCHANGED inventory
       ELSE /\ inventory' = Store(inventory, item_id, item)
            /\ response' = [status |-> 201, body |-> item @@ [item_id |-> item_id]]
    /\ MainFrame

\* GET /items/{item_id}
main_get_item(item_id) ==
    /\ request' = MainRequest("main.get_item", [item_id |-> item_id])
    /\ IF ~Contains(inventory, item_id)
       THEN response' = HTTPException(404, "Item not found")
       ELSE response' = [status |-> 200,
                         body |-> Lookup(inventory, item_id) @@ [item_id |-> item_id]]
    /\ UNCHANGED inventory
    /\ MainFrame

\* PUT /items/{item_id}
main_update_item(item_id, item) ==
    /\ request' = MainRequest("main.update_item", [item_id |-> item_id, item |-> item])
    /\ IF ~Contains(inventory, item_id)
       THEN /\ response' = HTTPException(404, "Item not found")
            /\ UNCHANGED inventory
       ELSE /\ inventory' = Store(inventory, item_id, item)
            /\ response' = [status |-> 200, body |-> item @@ [item_id |-> item_id]]
    /\ MainFrame

\* DELETE /items/{item_id}
main_delete_item(item_id) ==
    /\ request' = MainRequest("main.delete_item", [item_id |-> item_id])
    /\ IF ~Contains(inventory, item_id)
       THEN /\ response' = HTTPException(404, "Item not found")
            /\ UNCHANGED inventory
       ELSE /\ inventory' = Remove(inventory, item_id)
            /\ response' = [status |-> 204, body |-> <<>>]
    /\ MainFrame

\* GET /items/
main_list_items ==
    /\ request' = MainRequest("main.list_items", <<>>)
    /\ response' = [status |-> 200,
                    body |-> [i \in DOMAIN inventory |->
                                inventory[i].value @@ [item_id |-> inventory[i].key]]]
    /\ UNCHANGED inventory
    /\ MainFrame

NextMain ==
    \/ read_root
    \/ \E i \in 1..MaxMainId, item \in Items : main_add_item(i, item)
    \/ \E i \in 1..MaxMainId : main_get_item(i)
    \/ \E i \in 1..MaxMainId, item \in Items : main_update_item(i, item)
    \/ \E i \in 1..MaxMainId : main_delete_item(i)
    \/ main_list_items

SpecMain == Init /\ [][NextMain]_vars

(* C19 *)

MainAddStep ==
    /\ request'.op = "main.add_item"
    /\ main_add_item(request'.args.item_id, request'.args.item)
MainDeleteStep ==
    request'.op = "main.delete_item" /\ main_delete_item(request'.args.item_id)

\* C19: in main.py, add_item with an item_id already in the store fails with
\* 400 and leaves the store, the stored item included, unchanged; add_item with
\* an absent item_id stores exactly the request body under that id; the key
\* set of the store changes only by an add of an absent id or a delete of a
\* present id.
C19_MainAddRejectsTakenId ==
    [][/\ (MainAddStep /\ Contains(inventory, request'.args.item_id)) =>
            /\ response' = [status |-> 400, body |-> [detail |-> "Item ID already exists"]]
            /\ inventory' = inventory
       /\ (MainAddStep /\ ~Contains(inventory, request'.args.item_id)) =>
            /\ response'.status = 201
            /\ Contains(inventory', request'.args.item_id)
            /\ Lookup(inventory', request'.args.item_id) = request'.args.item
            /\ Keys(inventory') = Keys(inventory) \cup {request'.args.item_id}
            /\ SameExcept(inventory, inventory', request'.args.item_id)
       /\ Keys(inventory') # Keys(inventory) =>
            \/ /\ MainAddStep
               /\ ~Contains(inventory, request'.args.item_id)
               /\ Keys(inventory') = Keys(inventory) \cup {request'.args.item_id}
            \/ /\ MainDeleteStep
               /\ Contains(inventory, request'.args.item_id)
               /\ Keys(inventory') = Keys(inventory) \ {request'.args.item_id}]_vars

\* add_item of Pen under id 1, which holds Laptop, was answered 400 and id 1
\* still holds Laptop, next to a second item
C19_Witness ==
    /\ request.op = "main.add_item" /\ response.status = 400
    /\ request.args.item_id = 1 /\ request.args.item = Pen
    /\ Contains(inventory, 1) /\ Lookup(inventory, 1) = Laptop
    /\ Keys(inventory) = {1, 2}

====
